---- MODULE Spec2Model ----
(***************************************************************************)
(* Model of token-scanner-api/src/server/routes.py: the FastAPI router     *)
(* with the routes /, /balance/{address}, /top and /weekly/{address}.      *)
(*                                                                         *)
(* Every request is an independent coroutine.  A query handler builds a    *)
(* one-element list of collaborator coroutines, awaits asyncio.gather on   *)
(* it and shapes the gathered list into a JSON envelope.  The code between *)
(* two awaits runs without interruption, so a handler is two steps: the    *)
(* part up to the await and the part after it.                             *)
(***************************************************************************)
EXTENDS Naturals, Sequences, FiniteSets

\* ------------------------------------------------------------------ bounds
NumReqs == 2        \* request slots (requests in flight or finished)
MaxHolders == 2     \* longest holder list retrieve_top_balances returns
MaxBalance == 1     \* largest integer a collaborator returns

Reqs == 1..NumReqs
Addresses == {"0xA", "0xB"}

\* ------------------------------------------------------- Python values
\* A Python value, tagged with its type so that None, 0, "" and [] stay
\* distinct values.
PyNone == [tag |-> "none", n |-> 0, s |-> "", items |-> <<>>]
PyInt(k) == [tag |-> "int", n |-> k, s |-> "", items |-> <<>>]
PyStr(t) == [tag |-> "str", n |-> 0, s |-> t, items |-> <<>>]
PyList(l) == [tag |-> "list", n |-> 0, s |-> "", items |-> l]

\* ------------------------------------------- collaborator (database module)
Holders ==
    {[address |-> "0xA", balance |-> 2], [address |-> "0xB", balance |-> 1]}

HolderLists == UNION {[1..k -> Holders] : k \in 0..MaxHolders}

\* What each retrieval coroutine can complete with: a value, or an
\* empty/null value when the data is absent.
ReturnValues(fn) ==
    IF fn = "retrieve_top_balances"
    THEN {PyNone} \cup {PyList(l) : l \in HolderLists}
    ELSE {PyNone, PyStr("")} \cup {PyInt(k) : k \in 0..MaxBalance}

\* ------------------------------------------------------------ responses
NoResp == [kind |-> "none", status |-> 0, result |-> <<>>, text |-> ""]

\* A dict returned by a handler is sent as a 200 JSON body.
MessageEnvelope(text) ==
    [kind |-> "message", status |-> 200, result |-> <<>>, text |-> text]

ResultEnvelope_stringified(result) ==
    [kind |-> "result", status |-> 200,
     result |-> [i \in 1..Len(result) |->
        IF result[i].tag = "int" THEN PyStr("int") ELSE result[i]],
     text |-> ""]

ResultEnvelope_sorted(result) ==
    [kind |-> "result", status |-> 200,
     result |-> [i \in 1..Len(result) |->
        IF result[i].tag = "list" /\ Len(result[i].items) = 2
           /\ result[i].items[1].balance < result[i].items[2].balance
        THEN PyList(<<result[i].items[2], result[i].items[1]>>)
        ELSE result[i]],
     text |-> ""]

ResultEnvelope(result) ==
    [kind |-> "result", status |-> 200, result |-> result, text |-> ""]

ErrorEnvelope(text) ==
    [kind |-> "error", status |-> 200, result |-> <<>>, text |-> text]

\* An exception leaving a handler: the framework answers 500.
ServerError ==
    [kind |-> "server_error", status |-> 500, result |-> <<>>, text |-> ""]

\* A required parameter the request does not carry: the framework answers
\* 422 and the handler is not called.
ValidationError ==
    [kind |-> "validation_error", status |-> 422, result |-> <<>>, text |-> ""]

\* ------------------------------------------------------------- requests
NoReq == [route |-> "none", address |-> "", env_vars |-> FALSE]

\* Requests a client can send.  env_vars says whether the request carries a
\* value for the env_vars parameter; only /weekly declares it.
Requests ==
    {[route |-> "root", address |-> "", env_vars |-> FALSE],
     [route |-> "top", address |-> "", env_vars |-> FALSE]}
    \cup {[route |-> "balance", address |-> a, env_vars |-> FALSE] :
            a \in Addresses}
    \cup {[route |-> "weekly", address |-> a, env_vars |-> e] :
            a \in Addresses, e \in BOOLEAN}

\* Parameters a handler declares without a default.
handler_params_optional_env(route) ==
    IF route \in {"balance", "weekly"} THEN {"address"} ELSE {}

handler_params(route) ==
    CASE route = "balance" -> {"address"}
      [] route = "weekly" -> {"env_vars", "address"}
      [] OTHER -> {}

\* Parameters a request supplies.
supplied(q) ==
    (IF q.address # "" THEN {"address"} ELSE {})
    \cup (IF q.env_vars THEN {"env_vars"} ELSE {})

CanInvoke(q) == handler_params(q.route) \subseteq supplied(q)

\* ------------------------------------------------------------ handler parts
Pending(fn, arg) ==
    [fn |-> fn, arg |-> arg, state |-> "pending", value |-> PyNone]

get_notes_changed == MessageEnvelope("Token indexer server is down")

\* The source text starts with the coin emoji U+1FA99, written :coin: here.
get_notes == MessageEnvelope(":coin: Token indexer server is up and running!")

balance_futures_twice(address) ==
    <<Pending("retrieve_balance", address),
      Pending("retrieve_balance", address)>>

balance_futures(address) == <<Pending("retrieve_balance", address)>>

top_futures == <<Pending("retrieve_top_balances", "")>>

weekly_futures(address) == <<Pending("retrieve_holder_weekly_change", address)>>

\* `if result:` on the gathered list.
truthy_of_value(result) ==
    /\ Len(result) > 0
    /\ \A i \in 1..Len(result) :
          CASE result[i].tag = "none" -> FALSE
            [] result[i].tag = "int" -> result[i].n # 0
            [] result[i].tag = "str" -> result[i].s # ""
            [] OTHER -> Len(result[i].items) > 0

truthy(result) == Len(result) > 0

shape(result, message) ==
    IF truthy(result) THEN ResultEnvelope(result) ELSE ErrorEnvelope(message)

\* No handler has a try/except around its await.
on_exception_caught(message) == ErrorEnvelope(message)

on_exception(message) == ServerError

VARIABLES
    req,      \* req[r]: the request in slot r
    pc,       \* pc[r]: "new", "received", "awaiting" or "done"
    calls,    \* calls[r]: the collaborator coroutines the handler created
    result,   \* result[r]: the handler's local `result`
    resp      \* resp[r]: the response sent for the request

vars == <<req, pc, calls, result, resp>>

\* asyncio.gather(*futures): the list of the awaitables' results, in the
\* order of the awaitables.
gather_shared(futures) ==
    [i \in 1..Len(futures) |->
        LET done == {s \in Reqs : Len(calls[s]) > 0
                                  /\ calls[s][1].state = "returned"}
        IN  calls[CHOOSE s \in done : \A t \in done : s <= t][1].value]

gather(futures) == [i \in 1..Len(futures) |-> futures[i].value]

\* gather is finished: every awaitable returned, or one of them raised.
Raised(r) == \E i \in 1..Len(calls[r]) : calls[r][i].state = "raised"
Returned(r) == \A i \in 1..Len(calls[r]) : calls[r][i].state = "returned"

Init ==
    /\ req = [r \in Reqs |-> NoReq]
    /\ pc = [r \in Reqs |-> "new"]
    /\ calls = [r \in Reqs |-> <<>>]
    /\ result = [r \in Reqs |-> <<>>]
    /\ resp = [r \in Reqs |-> NoResp]

\* A client sends a request.
Receive(r, q) ==
    /\ pc[r] = "new"
    /\ req' = [req EXCEPT ![r] = q]
    /\ pc' = [pc EXCEPT ![r] = "received"]
    /\ UNCHANGED <<calls, result, resp>>

\* The framework cannot bind the handler's parameters.
Reject(r) ==
    /\ pc[r] = "received"
    /\ ~CanInvoke(req[r])
    /\ resp' = [resp EXCEPT ![r] = ValidationError]
    /\ pc' = [pc EXCEPT ![r] = "done"]
    /\ UNCHANGED <<req, calls, result>>

GetNotes(r) ==
    /\ pc[r] = "received"
    /\ req[r].route = "root"
    /\ CanInvoke(req[r])
    /\ resp' = [resp EXCEPT ![r] = get_notes]
    /\ pc' = [pc EXCEPT ![r] = "done"]
    /\ UNCHANGED <<req, calls, result>>

\* The part of a query handler up to its await.
Await(r, route, futures) ==
    /\ pc[r] = "received"
    /\ req[r].route = route
    /\ CanInvoke(req[r])
    /\ calls' = [calls EXCEPT ![r] = futures]
    /\ pc' = [pc EXCEPT ![r] = "awaiting"]
    /\ UNCHANGED <<req, result, resp>>

\* The part of a query handler after its await.
Resume(r, route, message) ==
    /\ pc[r] = "awaiting"
    /\ req[r].route = route
    /\ Raised(r) \/ Returned(r)
    /\ IF Raised(r)
       THEN /\ resp' = [resp EXCEPT ![r] = on_exception(message)]
            /\ UNCHANGED result
       ELSE /\ result' = [result EXCEPT ![r] = gather(calls[r])]
            /\ resp' = [resp EXCEPT ![r] = shape(result'[r], message)]
    /\ pc' = [pc EXCEPT ![r] = "done"]
    /\ UNCHANGED <<req, calls>>

GetTokenBalanceAwait(r) == Await(r, "balance", balance_futures(req[r].address))
GetTokenBalanceResume(r) == Resume(r, "balance", "wallet not found")

GetTopHoldersAwait(r) == Await(r, "top", top_futures)
GetTopHoldersResume(r) == Resume(r, "top", "No holders found")

GetHolderWeeklyChangeAwait(r) ==
    Await(r, "weekly", weekly_futures(req[r].address))
GetHolderWeeklyChangeResume(r) == Resume(r, "weekly", "wallet not found")

\* A collaborator coroutine completes with a value.
CollaboratorReturn(r, i, v) ==
    /\ calls[r][i].state = "pending"
    /\ calls' = [calls EXCEPT ![r][i].state = "returned", ![r][i].value = v]
    /\ UNCHANGED <<req, pc, result, resp>>

\* A collaborator coroutine raises.
CollaboratorRaise(r, i) ==
    /\ calls[r][i].state = "pending"
    /\ calls' = [calls EXCEPT ![r][i].state = "raised"]
    /\ UNCHANGED <<req, pc, result, resp>>

Next ==
    \E r \in Reqs :
        \/ \E q \in Requests : Receive(r, q)
        \/ Reject(r)
        \/ GetNotes(r)
        \/ GetTokenBalanceAwait(r)
        \/ GetTokenBalanceResume(r)
        \/ GetTopHoldersAwait(r)
        \/ GetTopHoldersResume(r)
        \/ GetHolderWeeklyChangeAwait(r)
        \/ GetHolderWeeklyChangeResume(r)
        \/ \E i \in 1..Len(calls[r]) :
              \/ \E v \in ReturnValues(calls[r][i].fn) :
                    CollaboratorReturn(r, i, v)
              \/ CollaboratorRaise(r, i)

Spec == Init /\ [][Next]_vars

\* ------------------------------------------------------------ properties
\* The bodies the spec's interface table gives, written out.
ExpectedResult(list) ==
    [kind |-> "result", status |-> 200, result |-> list, text |-> ""]
ExpectedError(text) ==
    [kind |-> "error", status |-> 200, result |-> <<>>, text |-> text]

\* The collaborator reports the data as absent: null or empty.
IsAbsent(v) ==
    \/ v.tag = "none"
    \/ v.tag = "str" /\ v.s = ""
    \/ v.tag = "list" /\ v.items = <<>>

QueryRoutes == {"balance", "top", "weekly"}

ExpectedCall(q) ==
    CASE q.route = "balance" -> [fn |-> "retrieve_balance", arg |-> q.address]
      [] q.route = "top" -> [fn |-> "retrieve_top_balances", arg |-> ""]
      [] q.route = "weekly" ->
            [fn |-> "retrieve_holder_weekly_change", arg |-> q.address]

\* The first call of request r is the expected one and returned v.
OwnCallReturned(r, v) ==
    /\ Len(calls[r]) > 0
    /\ calls[r][1].fn = ExpectedCall(req[r]).fn
    /\ calls[r][1].arg = ExpectedCall(req[r]).arg
    /\ calls[r][1].state = "returned"
    /\ calls[r][1].value = v

Finished(r, route) == pc[r] = "done" /\ req[r].route = route

\* C1: a finished GET /balance/{address} has called retrieve_balance with its
\* own address, and when that call returned a balance b the response is
\* exactly {"result": [b]}.
C1_BalancePassedThrough ==
    \A r \in Reqs :
        Finished(r, "balance") =>
            /\ Len(calls[r]) > 0
            /\ calls[r][1].fn = "retrieve_balance"
            /\ calls[r][1].arg = req[r].address
            /\ \A b \in ReturnValues("retrieve_balance") :
                  OwnCallReturned(r, b) /\ ~IsAbsent(b) =>
                      resp[r] = ExpectedResult(<<b>>)

C1_Witness ==
    \E r \in Reqs :
        /\ Finished(r, "balance")
        /\ OwnCallReturned(r, PyInt(1))
        /\ resp[r].kind = "result"

\* C2: a finished GET /balance/{address} whose retrieve_balance call returned
\* an empty/null value responds {"error": "wallet not found"}.
C2_AbsentBalanceIsError ==
    \A r \in Reqs :
        \A v \in ReturnValues("retrieve_balance") :
            Finished(r, "balance") /\ OwnCallReturned(r, v) /\ IsAbsent(v) =>
                resp[r] = ExpectedError("wallet not found")

\* C3: a finished GET /top whose retrieve_top_balances call returned an empty
\* holder list or null responds {"error": "No holders found"}, and a result
\* envelope is sent only for a non-empty holder list.
C3_NoHoldersIsError ==
    \A r \in Reqs :
        \A v \in ReturnValues("retrieve_top_balances") :
            Finished(r, "top") /\ OwnCallReturned(r, v) =>
                /\ IsAbsent(v) => resp[r] = ExpectedError("No holders found")
                /\ resp[r].kind = "result" => ~IsAbsent(v)

\* C4: the holder list in a GET /top response has the holders the
\* collaborator returned, as many and in the same order.
C4_HoldersInCollaboratorOrder ==
    \A r \in Reqs :
        \A v \in ReturnValues("retrieve_top_balances") :
            /\ Finished(r, "top")
            /\ OwnCallReturned(r, v)
            /\ v.tag = "list"
            /\ resp[r].kind = "result"
            => /\ Len(resp[r].result) = 1
               /\ resp[r].result[1].tag = "list"
               /\ Len(resp[r].result[1].items) = Len(v.items)
               /\ \A k \in 1..Len(v.items) :
                     resp[r].result[1].items[k] = v.items[k]

C4_Witness ==
    \E r \in Reqs :
        /\ Finished(r, "top")
        /\ resp[r].kind = "result"
        /\ Len(calls[r]) = 1
        /\ calls[r][1].state = "returned"
        /\ calls[r][1].value.tag = "list"
        /\ Len(calls[r][1].value.items) = 2
        /\ calls[r][1].value.items[1].balance
              < calls[r][1].value.items[2].balance

\* C5: a GET /weekly/{address} request without a value for env_vars fails:
\* it never calls the collaborator and never gets a result or error
\* envelope.  A /weekly request that did call the collaborator carried
\* env_vars and called retrieve_holder_weekly_change with its own address.
C5_WeeklyNeedsEnvVars ==
    \A r \in Reqs :
        req[r].route = "weekly" =>
            /\ ~req[r].env_vars =>
                  /\ calls[r] = <<>>
                  /\ pc[r] \in {"received", "done"}
                  /\ resp[r].kind \notin {"result", "error", "message"}
                  /\ pc[r] = "done" => resp[r].status >= 400
            /\ calls[r] # <<>> =>
                  /\ req[r].env_vars
                  /\ calls[r][1].fn = "retrieve_holder_weekly_change"
                  /\ calls[r][1].arg = req[r].address
            /\ req[r].env_vars /\ pc[r] = "done" => calls[r] # <<>>

C5_Witness ==
    \E r, s \in Reqs :
        /\ Finished(r, "weekly") /\ ~req[r].env_vars
        /\ resp[r].status >= 400
        /\ Finished(s, "weekly") /\ req[s].env_vars
        /\ resp[s].kind = "result"

\* C6: a request whose collaborator call raised ends as a server error and
\* never has a result or error envelope; every result or error envelope is a
\* 200 response of a request whose collaborator call returned.
C6_ExceptionsPropagate ==
    \A r \in Reqs :
        LET raised == \E i \in 1..Len(calls[r]) : calls[r][i].state = "raised"
        IN  /\ raised => resp[r].kind \in {"none", "server_error"}
            /\ raised /\ pc[r] = "done" =>
                  resp[r].kind = "server_error" /\ resp[r].status = 500
            /\ resp[r].kind \in {"result", "error"} =>
                  /\ resp[r].status = 200
                  /\ calls[r] # <<>>
                  /\ \A i \in 1..Len(calls[r]) : calls[r][i].state = "returned"

C6_Witness ==
    \E r, s \in Reqs :
        /\ pc[r] = "done"
        /\ Len(calls[r]) = 1 /\ calls[r][1].state = "raised"
        /\ resp[r].kind = "server_error"
        /\ pc[s] = "done" /\ resp[s].kind = "result"

\* C7: GET / can always be answered once received, is answered with exactly
\* the status message, never fails and never calls a collaborator.
C7_StatusMessage ==
    \A r \in Reqs :
        req[r].route = "root" =>
            /\ calls[r] = <<>>
            /\ resp[r].kind \in {"none", "message"}
            /\ pc[r] = "received" => ENABLED GetNotes(r)
            /\ pc[r] = "done" =>
                  resp[r] = [kind |-> "message", status |-> 200,
                             result |-> <<>>,
                             text |->
                               ":coin: Token indexer server is up and running!"]

C7_Witness ==
    \E r, s \in Reqs :
        /\ Finished(r, "root")
        /\ resp[r].kind = "message"
        /\ resp[s].kind = "server_error"

\* C8: in a query handler that got past its await the gathered list has
\* exactly one element and the response is a result envelope, whatever the
\* collaborator returned; no request ever gets an error envelope.
C8_ErrorBranchUnreachable ==
    \A r \in Reqs :
        /\ resp[r].kind # "error"
        /\ /\ req[r].route \in QueryRoutes
           /\ pc[r] = "done"
           /\ calls[r] # <<>>
           /\ \A i \in 1..Len(calls[r]) : calls[r][i].state = "returned"
           => Len(result[r]) = 1 /\ resp[r].kind = "result"

C8_Witness ==
    \E r, s \in Reqs :
        /\ Finished(r, "balance") /\ OwnCallReturned(r, PyNone)
        /\ resp[r].kind = "result"
        /\ Finished(s, "top") /\ OwnCallReturned(s, PyList(<<>>))
        /\ resp[s].kind = "result"

\* C9: a query handler that was entered issued exactly one collaborator
\* call, the one of its route with its own address; it is suspended only
\* with that call issued, and it responds in a later step than the one in
\* which the call completed.
C9_Inv ==
    \A r \in Reqs :
        /\ Len(calls[r]) <= 1
        /\ pc[r] = "awaiting" => req[r].route \in QueryRoutes
        /\ req[r].route \in QueryRoutes /\ pc[r] = "awaiting" =>
              Len(calls[r]) = 1
        /\ req[r].route \in QueryRoutes /\ resp[r].kind \in
                {"result", "error", "server_error"} =>
              Len(calls[r]) = 1 /\ calls[r][1].state # "pending"
        /\ calls[r] # <<>> =>
              /\ calls[r][1].fn = ExpectedCall(req[r]).fn
              /\ calls[r][1].arg = ExpectedCall(req[r]).arg

C9_Step ==
    \A r \in Reqs :
        /\ calls[r] # <<>> => Len(calls'[r]) = Len(calls[r])
        /\ resp'[r] # resp[r] /\ req[r].route \in QueryRoutes
              /\ resp'[r].kind # "validation_error" =>
              /\ Len(calls[r]) = 1
              /\ calls[r][1].state # "pending"
              /\ calls'[r] = calls[r]

C9_OneCallThenRespond == []C9_Inv /\ [][C9_Step]_vars

C9_Witness ==
    \E r, s \in Reqs :
        /\ Finished(r, "balance") /\ resp[r].kind = "result"
        /\ Len(calls[r]) = 1
        /\ pc[s] = "awaiting" /\ req[s].route = "weekly"
        /\ Len(calls[s]) = 1 /\ calls[s][1].state = "pending"

\* C10: a response, once sent, never changes; a step sends at most one
\* response; and a result envelope carries the value the request's own
\* collaborator call returned, whatever the other requests are doing.
C10_Step ==
    \A r \in Reqs :
        /\ resp[r] # NoResp => resp'[r] = resp[r]
        /\ resp'[r] # resp[r] =>
              /\ \A s \in Reqs \ {r} : resp'[s] = resp[s]
              /\ resp'[r].kind \in {"result", "error"} =>
                    /\ Len(calls[r]) > 0
                    /\ resp'[r].result = <<calls[r][1].value>>

C10_Inv ==
    \A r, s \in Reqs :
        /\ resp[r].kind = "result" =>
              Len(calls[r]) > 0 /\ resp[r].result = <<calls[r][1].value>>
        /\ /\ pc[r] = "done" /\ pc[s] = "done"
           /\ req[r].route = req[s].route
           /\ req[r].env_vars = req[s].env_vars
           /\ calls[r] # <<>> /\ calls[s] # <<>>
           /\ calls[r][1].state = calls[s][1].state
           /\ calls[r][1].value = calls[s][1].value
           => resp[r] = resp[s]

C10_RequestsIsolated == []C10_Inv /\ [][C10_Step]_vars

C10_Witness ==
    \E r, s \in Reqs :
        /\ r # s
        /\ Finished(r, "balance") /\ Finished(s, "balance")
        /\ resp[r].kind = "result" /\ resp[s].kind = "result"
        /\ resp[r].result # resp[s].result
        /\ req[r].address = req[s].address
====
